---------------------------- MODULE Spec2Model ----------------------------
(***************************************************************************)
(* Model of package nodefflag (github.com/myENA/nodefflag): the "no        *)
(* default" flag adapters (ND*: pointer-to-pointer cells, ZV*: plain       *)
(* cells), the registration entry points of NDFlagSet and its usage        *)
(* printing, together with the parts of the standard flag, strconv and     *)
(* time packages the adapters call.                                        *)
(*                                                                         *)
(* Text (flag values, examples, usage lines) is a sequence of one          *)
(* character strings, so that parsing and formatting are computed          *)
(* character by character as the library does.  64 bit machine words are   *)
(* four 16 bit limbs, least significant first, so that the unsigned        *)
(* arithmetic of strconv (wrap around included) is computed exactly.       *)
(***************************************************************************)
EXTENDS Integers, Sequences, FiniteSets, TLC

(***************************************************************************)
(* State.                                                                  *)
(***************************************************************************)
VARIABLES
    intSize,        \* strconv.IntSize, the width of int and uint of the build
    name,           \* NDFlagSet.name
    errorHandling,  \* flag.FlagSet.errorHandling
    formal,         \* flag.FlagSet.formal: name -> Flag
    actual,         \* flag.FlagSet.actual: the names of the flags that were set
    heap,           \* the variables the adapters point to
    output,         \* the usage text written last, line by line
    err,            \* what the latest call returned
    halted,         \* "run", or how the process ended: "exit", "panic"
    reg             \* history: name -> how the flag was registered

vars == <<intSize, name, errorHandling, formal, actual, heap, output, err, halted,
          reg>>

(***************************************************************************)
(* Machine words.                                                          *)
(***************************************************************************)
LimbBase == 2^16

Zero64 == <<0, 0, 0, 0>>

Max64 == <<LimbBase - 1, LimbBase - 1, LimbBase - 1, LimbBase - 1>>

\* 1<<31 - 1 and 1<<32 - 1, 1<<31, 1<<63 as words
MaxUint32 == <<LimbBase - 1, LimbBase - 1, 0, 0>>

Pow31 == <<0, LimbBase \div 2, 0, 0>>

Pow63 == <<0, 0, 0, LimbBase \div 2>>

\* a small natural number (below 2^31) as a word
U64(n) == <<n % LimbBase, n \div LimbBase, 0, 0>>

\* x < y, unsigned
Less64(x, y) ==
    \E i \in 1..4 : x[i] < y[i] /\ \A j \in (i+1)..4 : x[j] = y[j]

\* x * k + a modulo 2^64, for small k and a (k, a < 2^14): the word and the
\* carry out of it
MulAdd64(x, k, a) ==
    LET t1 == x[1] * k + a
        t2 == x[2] * k + (t1 \div LimbBase)
        t3 == x[3] * k + (t2 \div LimbBase)
        t4 == x[4] * k + (t3 \div LimbBase)
    IN  [val |-> <<t1 % LimbBase, t2 % LimbBase, t3 % LimbBase, t4 % LimbBase>>,
         carry |-> t4 \div LimbBase]

\* x + y modulo 2^64 and the carry out
Add64(x, y) ==
    LET t1 == x[1] + y[1]
        t2 == x[2] + y[2] + (t1 \div LimbBase)
        t3 == x[3] + y[3] + (t2 \div LimbBase)
        t4 == x[4] + y[4] + (t3 \div LimbBase)
    IN  [val |-> <<t1 % LimbBase, t2 % LimbBase, t3 % LimbBase, t4 % LimbBase>>,
         carry |-> t4 \div LimbBase]

\* two's complement negation: -x modulo 2^64
Neg64(x) ==
    Add64(<<LimbBase - 1 - x[1], LimbBase - 1 - x[2],
            LimbBase - 1 - x[3], LimbBase - 1 - x[4]>>, U64(1)).val

\* x divided by a small k (k < 2^14): quotient word and remainder
DivMod64(x, k) ==
    LET r4 == x[4]
        r3 == (r4 % k) * LimbBase + x[3]
        r2 == (r3 % k) * LimbBase + x[2]
        r1 == (r2 % k) * LimbBase + x[1]
    IN  [quo |-> <<r1 \div k, r2 \div k, r3 \div k, r4 \div k>>, rem |-> r1 % k]

\* the sign bit of a word read as int64
IsNeg64(x) == x[4] >= LimbBase \div 2

\* a conversion that keeps all 64 bits, whatever the width of uint
KeepUint(x, size) == x

\* uint(x) on a platform whose uint is intSize bits wide
NarrowUint(x, size) == IF size = 32 THEN <<x[1], x[2], 0, 0>> ELSE x

(***************************************************************************)
(* Characters.                                                             *)
(***************************************************************************)
Digits == <<"0", "1", "2", "3", "4", "5", "6", "7", "8", "9">>

IsDigit(c) == \E i \in 1..10 : Digits[i] = c

DigitVal(c) == (CHOOSE i \in 1..10 : Digits[i] = c) - 1

DigitChar(d) == Digits[d + 1]


\* the text of a word in base 10 (strconv.FormatUint(x, 10), time.fmtInt)
RECURSIVE FormatBits(_)
FormatBits(x) ==
    LET qr == DivMod64(x, 10)
    IN  IF qr.quo = Zero64 THEN <<DigitChar(qr.rem)>>
        ELSE FormatBits(qr.quo) \o <<DigitChar(qr.rem)>>

(***************************************************************************)
(* Package strconv.  A result is [val, err]; err is "nil", "syntax"        *)
(* (strconv.ErrSyntax) or "range" (strconv.ErrRange).                      *)
(***************************************************************************)
Ok(v) == [val |-> v, err |-> "nil"]

Fail(v, e) == [val |-> v, err |-> e]

\* cutoff of ParseUint in base 10: maxUint64/10 + 1
\* maxUint64/10, without the 1 that strconv adds to it
CutoffFloor == DivMod64(Max64, 10).quo

Cutoff10 == Add64(DivMod64(Max64, 10).quo, U64(1)).val

\* maxVal of ParseUint: 1<<bitSize - 1
MaxVal(bitSize) == IF bitSize = 32 THEN MaxUint32 ELSE Max64

\* the digit loop of strconv.ParseUint in base 10: n is the value of
\* s[1..i-1]; ParseUintAdd is the end of one round, with n the value already
\* multiplied by the base and n1 that plus the digit
RECURSIVE ParseUintLoop(_, _, _, _)
ParseUintAdd(s, i, n, n1, maxVal) ==
    IF Less64(n1, n) \/ Less64(maxVal, n1) THEN Fail(maxVal, "range")
    ELSE ParseUintLoop(s, i + 1, n1, maxVal)

ParseUintMul(s, i, n, maxVal) ==
    ParseUintAdd(s, i, n, Add64(n, U64(DigitVal(s[i]))).val, maxVal)

ParseUintLoop(s, i, n, maxVal) ==
    IF i > Len(s) THEN Ok(n)
    ELSE IF ~IsDigit(s[i]) THEN Fail(Zero64, "syntax")
    ELSE IF ~Less64(n, Cutoff10) THEN Fail(maxVal, "range")
    ELSE ParseUintMul(s, i, MulAdd64(n, 10, 0).val, maxVal)

\* strconv.ParseUint(s, 10, bitSize)
ParseUint(s, bitSize) ==
    IF s = <<>> THEN Fail(Zero64, "syntax")
    ELSE ParseUintLoop(s, 1, Zero64, MaxVal(bitSize))

\* the end of strconv.ParseInt: un is what ParseUint made of the digits,
\* cutoff is 1<<(bitSize-1)
ParseIntSigned(neg, un, cutoff) ==
    IF un.err = "syntax" THEN Fail(Zero64, "syntax")
    ELSE IF ~neg /\ ~Less64(un.val, cutoff) THEN Fail(Add64(cutoff, Max64).val, "range")
    ELSE IF neg /\ Less64(cutoff, un.val) THEN Fail(Neg64(cutoff), "range")
    ELSE Ok(IF neg THEN Neg64(un.val) ELSE un.val)

\* strconv.ParseInt(s, 10, bitSize); the result is the int64 as a word
ParseInt(s, bitSize) ==
    IF s = <<>> THEN Fail(Zero64, "syntax")
    ELSE ParseIntSigned(s[1] = "-",
                        ParseUint(IF s[1] = "+" \/ s[1] = "-" THEN Tail(s) ELSE s, bitSize),
                        IF bitSize = 32 THEN Pow31 ELSE Pow63)

\* strconv.Atoi(s): the fast path for short s computes what
\* ParseInt(s, 10, 0) computes, with bitSize 0 standing for strconv.IntSize
Atoi(s, size) == ParseInt(s, size)

\* strconv.ParseBool
ParseBool(str) ==
    IF str \in {<<"1">>, <<"t">>, <<"T">>, <<"T","R","U","E">>,
                <<"t","r","u","e">>, <<"T","r","u","e">>}
    THEN Ok(TRUE)
    ELSE IF str \in {<<"0">>, <<"f">>, <<"F">>, <<"F","A","L","S","E">>,
                     <<"f","a","l","s","e">>, <<"F","a","l","s","e">>}
    THEN Ok(FALSE)
    ELSE Fail(FALSE, "syntax")

\* strconv.FormatBool
FormatBool(b) == IF b THEN <<"t","r","u","e">> ELSE <<"f","a","l","s","e">>

\* strconv.FormatUint(x, 10)
FormatUint(x) == FormatBits(x)

\* strconv.FormatInt(x, 10) of the int64 held in word x
FormatInt(x) == IF IsNeg64(x) THEN <<"-">> \o FormatBits(Neg64(x)) ELSE FormatBits(x)


\* the index after the run of decimal digits of s that starts at i
RECURSIVE DigitRunEnd(_, _)
DigitRunEnd(s, i) ==
    IF i <= Len(s) /\ IsDigit(s[i]) THEN DigitRunEnd(s, i + 1) ELSE i

\* the number of leading "0" of a digit sequence
RECURSIVE LeadingZeros(_)
LeadingZeros(d) ==
    IF d # <<>> /\ d[1] = "0" THEN 1 + LeadingZeros(Tail(d)) ELSE 0

\* a digit sequence without its trailing "0"
RECURSIVE TrimRight(_)
TrimRight(d) ==
    IF d # <<>> /\ d[Len(d)] = "0" THEN TrimRight(SubSeq(d, 1, Len(d) - 1)) ELSE d

\* the exponent digits of a float literal, accumulated as readFloat does
\* (no longer accumulated once the exponent has reached 10000)
RECURSIVE ReadExp(_, _, _, _)
ReadExp(s, i, j, e) ==
    IF i >= j THEN e
    ELSE ReadExp(s, i + 1, j, IF e < 10000 THEN e * 10 + DigitVal(s[i]) ELSE e)

\* x < y for digit sequences of the same length
RECURSIVE DigitsLess(_, _)
DigitsLess(x, y) ==
    IF x = <<>> THEN FALSE
    ELSE IF x[1] # y[1] THEN DigitVal(x[1]) < DigitVal(y[1])
    ELSE DigitsLess(Tail(x), Tail(y))

\* d followed by zeros up to length n
RECURSIVE PadRight(_, _)
PadRight(d, n) == IF Len(d) >= n THEN d ELSE PadRight(d \o <<"0">>, n)

\* the first 15 digits of the largest float64, 1.79769313486231570e+308
MaxFloatDigits == <<"1","7","9","7","6","9","3","1","3","4","8","6","2","3","1">>

\* a float64 as the decimal strconv works with (decimalSlice): the value is
\* 0.d * 10^dp, d without leading or trailing zeros.  For a literal of at
\* most 15 significant digits in the normal range this decimal determines
\* the float64 and is the shortest decimal that formats it.
Float(neg, d, dp) == [neg |-> neg, d |-> d, dp |-> IF d = <<>> THEN 0 ELSE dp]

\* whether s has a sign character at i
SignAt(s, i) == i <= Len(s) /\ (s[i] = "+" \/ s[i] = "-")

\* the end of strconv.ParseFloat: the literal read is the mantissa digits
\* all, nint of them before the point, and the exponent e; it ends before
\* index end of s
FloatOf(s, neg, all, nint, e, end) ==
    IF end <= Len(s) THEN Fail(Float(FALSE, <<>>, 0), "syntax")
    ELSE IF LeadingZeros(all) = Len(all) THEN Ok(Float(neg, <<>>, 0))
    ELSE IF nint - LeadingZeros(all) + e > 309
            \/ (nint - LeadingZeros(all) + e = 309
                /\ DigitsLess(MaxFloatDigits,
                       PadRight(TrimRight(SubSeq(all, LeadingZeros(all) + 1, Len(all))), 15)))
         THEN Fail([neg |-> neg, inf |-> TRUE], "range")
    ELSE Ok(Float(neg, TrimRight(SubSeq(all, LeadingZeros(all) + 1, Len(all))),
                  nint - LeadingZeros(all) + e))

\* the exponent of a float literal: s[b] is "e" or "E", the digits start at
\* es (after an optional sign)
FloatExp(s, neg, all, nint, b, es) ==
    IF DigitRunEnd(s, es) = es THEN Fail(Float(FALSE, <<>>, 0), "syntax")
    ELSE FloatOf(s, neg, all, nint,
                 IF s[es - 1] = "-" THEN 0 - ReadExp(s, es, DigitRunEnd(s, es), 0)
                 ELSE ReadExp(s, es, DigitRunEnd(s, es), 0),
                 DigitRunEnd(s, es))

\* the mantissa of a float literal is s[i0..b-1], with the point at a (or
\* a = b without a point)
FloatMantissa(s, neg, i0, a, b) ==
    IF b - i0 - (IF a < b THEN 1 ELSE 0) = 0 THEN Fail(Float(FALSE, <<>>, 0), "syntax")
    ELSE IF b <= Len(s) /\ (s[b] = "e" \/ s[b] = "E")
    THEN FloatExp(s, neg, SubSeq(s, i0, a - 1) \o SubSeq(s, a + 1, b - 1), a - i0, b,
                  IF SignAt(s, b + 1) THEN b + 2 ELSE b + 1)
    ELSE FloatOf(s, neg, SubSeq(s, i0, a - 1) \o SubSeq(s, a + 1, b - 1), a - i0, 0, b)

\* the integer digits of a float literal are s[i0..a-1]
FloatPoint(s, neg, i0, a) ==
    FloatMantissa(s, neg, i0, a,
                  IF a <= Len(s) /\ s[a] = "." THEN DigitRunEnd(s, a + 1) ELSE a)

\* strconv.ParseFloat(s, 64) on decimal literals (sign, digits, point,
\* exponent).  The other forms (inf, nan, hexadecimal, underscores after a
\* base prefix) all contain a character that ends the literal early here.
ParseFloat(s) ==
    FloatPoint(s, s # <<>> /\ s[1] = "-", IF SignAt(s, 1) THEN 2 ELSE 1,
               DigitRunEnd(s, IF SignAt(s, 1) THEN 2 ELSE 1))

\* the digits of strconv's %e exponent: at least two
FmtExp(x) ==
    IF x < 10 THEN <<"0", DigitChar(x)>>
    ELSE IF x < 100 THEN <<DigitChar(x \div 10), DigitChar(x % 10)>>
    ELSE <<DigitChar(x \div 100), DigitChar((x \div 10) % 10), DigitChar(x % 10)>>

\* strconv.fmtE with the shortest precision
FmtE(f) ==
    LET nd  == Len(f.d)
        exp == IF nd = 0 THEN 0 ELSE f.dp - 1
    IN  (IF f.neg THEN <<"-">> ELSE <<>>)
        \o <<IF nd = 0 THEN "0" ELSE f.d[1]>>
        \o (IF nd > 1 THEN <<".">> \o SubSeq(f.d, 2, nd) ELSE <<>>)
        \o <<"e", IF exp < 0 THEN "-" ELSE "+">>
        \o FmtExp(IF exp < 0 THEN 0 - exp ELSE exp)

\* strconv.fmtF with prec digits after the point
FmtF(f, prec) ==
    LET nd == Len(f.d)
        m  == IF nd < f.dp THEN nd ELSE f.dp
    IN  (IF f.neg THEN <<"-">> ELSE <<>>)
        \o (IF f.dp > 0 THEN PadRight(SubSeq(f.d, 1, m), f.dp) ELSE <<"0">>)
        \o (IF prec > 0
            THEN <<".">> \o [i \in 1..prec |->
                     IF f.dp + i >= 1 /\ f.dp + i <= nd THEN f.d[f.dp + i] ELSE "0"]
            ELSE <<>>)

\* strconv.FormatFloat(f, 'g', -1, 64)
FormatFloat(f) ==
    LET nd  == Len(f.d)
        exp == f.dp - 1
    IN  IF exp < -4 \/ exp >= 6 THEN FmtE(f)
        ELSE FmtF(f, IF nd - f.dp > 0 THEN nd - f.dp ELSE 0)


(***************************************************************************)
(* Package time: Duration is an int64 count of nanoseconds, held as a      *)
(* word.                                                                   *)
(***************************************************************************)
\* x * k1 * k2 * ... modulo 2^64, for a sequence of small factors
RECURSIVE MulSeq64(_, _)
MulSeq64(x, ks) ==
    IF ks = <<>> THEN x ELSE MulSeq64(MulAdd64(x, ks[1], 0).val, Tail(ks))

\* x / (k1 * k2 * ...), for a sequence of small factors
RECURSIVE DivSeq64(_, _)
DivSeq64(x, ks) ==
    IF ks = <<>> THEN x ELSE DivSeq64(DivMod64(x, ks[1]).quo, Tail(ks))

\* time.unitMap: the nanoseconds of a unit, as a product of small factors.
\* The micro sign spellings of "us" are not among the characters used here.
UnitNames == {<<"n","s">>, <<"u","s">>, <<"m","s">>, <<"s">>, <<"m">>, <<"h">>}

UnitFactors(u) ==
    CASE u = <<"n","s">> -> <<>>
      [] u = <<"u","s">> -> <<1000>>
      [] u = <<"m","s">> -> <<1000, 1000>>
      [] u = <<"s">>     -> <<1000, 1000, 1000>>
      [] u = <<"m">>     -> <<1000, 1000, 1000, 60>>
      [] u = <<"h">>     -> <<1000, 1000, 1000, 3600>>

\* time.leadingInt on the digits s[i..j-1]: the value, or an overflow
RECURSIVE LeadingInt(_, _, _, _)
LeadingIntAdd(s, i, j, y) ==
    IF Less64(Pow63, y) THEN Fail(Zero64, "invalid") ELSE LeadingInt(s, i + 1, j, y)

LeadingInt(s, i, j, x) ==
    IF i >= j THEN Ok(x)
    ELSE IF Less64(DivMod64(Pow63, 10).quo, x) THEN Fail(Zero64, "invalid")
    ELSE LeadingIntAdd(s, i, j, MulAdd64(x, 10, DigitVal(s[i])).val)

\* time.leadingFraction on the digits s[i..j-1]: x and the number of digits
\* taken (scale is 10^n); digits are dropped once x would overflow
RECURSIVE LeadingFraction(_, _, _, _, _)
LeadingFractionAdd(s, i, j, x, n, y) ==
    IF Less64(Pow63, y) THEN [x |-> x, n |-> n]
    ELSE LeadingFraction(s, i + 1, j, y, n + 1)

LeadingFraction(s, i, j, x, n) ==
    IF i >= j THEN [x |-> x, n |-> n]
    ELSE IF Less64(DivMod64(Add64(Pow63, Max64).val, 10).quo, x) THEN [x |-> x, n |-> n]
    ELSE LeadingFractionAdd(s, i, j, x, n, MulAdd64(x, 10, DigitVal(s[i])).val)

\* the index after the unit that starts at i: up to the next "." or digit
RECURSIVE UnitEnd(_, _)
UnitEnd(s, i) ==
    IF i <= Len(s) /\ s[i] # "." /\ ~IsDigit(s[i]) THEN UnitEnd(s, i + 1) ELSE i

\* the loop of time.ParseDuration over the groups number-unit; d is the sum
\* so far.  A group starts at i; its integer digits end before a, its
\* fraction digits before b and its unit before e; v is the integer part, fr
\* the fraction, v2 the value of the group in nanoseconds.  The fraction
\* f * (unit / scale) is computed in integers, which is what the float64
\* product yields for fractions of a few digits.
RECURSIVE DurationGroups(_, _, _)
GroupSum(s, e, d2) ==
    IF Less64(Pow63, d2) THEN Fail(Zero64, "invalid") ELSE DurationGroups(s, e, d2)

GroupAdd(s, e, d, v2) ==
    IF Less64(Pow63, v2) THEN Fail(Zero64, "invalid")
    ELSE GroupSum(s, e, Add64(d, v2).val)

GroupScale(s, e, d, vu, fr, ks) ==
    GroupAdd(s, e, d,
             IF fr.x # Zero64
             THEN Add64(vu, DivSeq64(MulSeq64(fr.x, ks), [k \in 1..fr.n |-> 10])).val
             ELSE vu)

GroupUnit(s, i, a, b, e, d, v, fr) ==
    IF v.err # "nil" THEN Fail(Zero64, "invalid")
    ELSE IF ~(a > i) /\ ~(b > a + 1) THEN Fail(Zero64, "invalid")
    ELSE IF e = b THEN Fail(Zero64, "invalid")
    ELSE IF SubSeq(s, b, e - 1) \notin UnitNames THEN Fail(Zero64, "invalid")
    ELSE IF Less64(DivSeq64(Pow63, UnitFactors(SubSeq(s, b, e - 1))), v.val)
         THEN Fail(Zero64, "invalid")
    ELSE GroupScale(s, e, d, MulSeq64(v.val, UnitFactors(SubSeq(s, b, e - 1))), fr,
                    UnitFactors(SubSeq(s, b, e - 1)))

GroupFraction(s, i, a, b, d) ==
    GroupUnit(s, i, a, b, UnitEnd(s, b), d, LeadingInt(s, i, a, Zero64),
              IF b > a THEN LeadingFraction(s, a + 1, b, Zero64, 0)
              ELSE [x |-> Zero64, n |-> 0])

GroupInt(s, i, a, d) ==
    GroupFraction(s, i, a, IF a <= Len(s) /\ s[a] = "." THEN DigitRunEnd(s, a + 1) ELSE a, d)

DurationGroups(s, i, d) ==
    IF i > Len(s) THEN Ok(d)
    ELSE IF ~(s[i] = "." \/ IsDigit(s[i])) THEN Fail(Zero64, "invalid")
    ELSE GroupInt(s, i, DigitRunEnd(s, i), d)

\* the end of time.ParseDuration: r is what the groups add up to
DurationSigned(neg, r) ==
    IF r.err # "nil" THEN r
    ELSE IF neg THEN Ok(Neg64(r.val))
    ELSE IF ~Less64(r.val, Pow63) THEN Fail(Zero64, "invalid")
    ELSE r

DurationRest(neg, rest) ==
    IF rest = <<"0">> THEN Ok(Zero64)
    ELSE IF rest = <<>> THEN Fail(Zero64, "invalid")
    ELSE DurationSigned(neg, DurationGroups(rest, 1, Zero64))

\* time.ParseDuration
ParseDuration(s) ==
    DurationRest(s # <<>> /\ s[1] = "-",
                 IF s # <<>> /\ (s[1] = "-" \/ s[1] = "+") THEN Tail(s) ELSE s)

\* time.fmtFrac: the fraction of v / 10^prec without its trailing zeros (and
\* without the point when it is zero), and v / 10^prec
RECURSIVE FmtFrac(_, _, _, _)
FmtFrac(v, prec, out, print) ==
    IF prec = 0
    THEN [text |-> IF print THEN <<".">> \o out ELSE out, v |-> v]
    ELSE LET qr == DivMod64(v, 10)
             p  == print \/ qr.rem # 0
         IN  FmtFrac(qr.quo, prec - 1,
                     IF p THEN <<DigitChar(qr.rem)>> \o out ELSE out, p)

\* Duration.String of a duration of at least one second (u its magnitude)
DurationLong(u) ==
    LET fs   == FmtFrac(u, 9, <<>>, FALSE)
        secs == DivMod64(fs.v, 60)
        mins == DivMod64(secs.quo, 60)
    IN  (IF secs.quo # Zero64
         THEN (IF mins.quo # Zero64 THEN FormatBits(mins.quo) \o <<"h">> ELSE <<>>)
              \o FormatBits(U64(mins.rem)) \o <<"m">>
         ELSE <<>>)
        \o FormatBits(U64(secs.rem)) \o fs.text \o <<"s">>

\* Duration.String of a duration below one second; the unit of a duration
\* between 1000ns and 1ms is written with the micro sign (here "u")
DurationShort(u) ==
    LET micro == U64(1000)
        milli == MulAdd64(micro, 1000, 0).val
        prec  == IF Less64(u, micro) THEN 0 ELSE IF Less64(u, milli) THEN 3 ELSE 6
        unit  == IF Less64(u, micro) THEN "n" ELSE IF Less64(u, milli) THEN "u" ELSE "m"
        fs    == FmtFrac(u, prec, <<>>, FALSE)
    IN  FormatBits(fs.v) \o fs.text \o <<unit, "s">>

\* time.Duration.String
DurationString(d) ==
    LET neg    == IsNeg64(d)
        u      == IF neg THEN Neg64(d) ELSE d
        second == MulSeq64(U64(1), <<1000, 1000, 1000>>)
    IN  IF u = Zero64 THEN <<"0", "s">>
        ELSE (IF neg THEN <<"-">> ELSE <<>>)
             \o (IF Less64(u, second) THEN DurationShort(u) ELSE DurationLong(u))


(***************************************************************************)
(* The value texts.                                                        *)
(***************************************************************************)
MaxUint64Text ==
    <<"1","8","4","4","6","7","4","4","0","7","3","7","0","9","5","5","1","6","1","5">>

\* the value texts command lines supply
Tokens ==
    { <<>>, <<"0">>, <<"t">>, <<"t","r","u","e">>, <<"f","a","l","s","e">>,
      <<"f","o","o">>, <<"-","5">>, <<"0","4","2">>, <<"1",".","5">>,
      <<"1","h","3","0","m">>,
      <<"9","9","9","9","9","9","9","9","9","9","9","9","9","9","9","9","9","9","9","9">>,
      <<"2","1","4","7","4","8","3","6","4","8">>,
      <<"4","2","9","4","9","6","7","2","9","6">>,
      <<"9","2","2","3","3","7","2","0","3","6","8","5","4","7","7","5","8","0","8">>,
      MaxUint64Text,
      SubSeq(MaxUint64Text, 1, 19) \o <<"6">> }

\* the value texts handed to flag.FlagSet.Set directly, or supplied as the
\* argument after the flag
FewTokens == { <<>>, <<"0">>, <<"t","r","u","e">>, <<"f","o","o">> }

\* the texts the adapters are asked to parse: the value texts, and the
\* "true" that flag.FlagSet passes for a boolean flag without a value
Texts == Tokens \cup {<<"t","r","u","e">>}

\* the parsers tabulated over the texts (computed once)
ParseBoolOf == [s \in Texts |-> ParseBool(s)]

AtoiOf == [size \in {32, 64} |-> [s \in Texts |-> Atoi(s, size)]]

ParseInt64Of == [s \in Texts |-> ParseInt(s, 64)]

ParseUint64Of == [s \in Texts |-> ParseUint(s, 64)]

ParseFloatOf == [s \in {t \in Texts : Len(t) <= 15} |-> ParseFloat(s)]

ParseDurationOf == [s \in Texts |-> ParseDuration(s)]

(***************************************************************************)
(* Storage.  heap[a] is the content of the variable at address a; address  *)
(* 0 is the nil pointer.  The variable behind an ND flag holds a pointer:  *)
(* Nil, or Ptr(v), a pointer to a holder of v.  The variable behind a ZV   *)
(* flag holds the value itself.                                            *)
(***************************************************************************)
Nil == <<>>

Ptr(v) == <<v>>

Deref(p) == p[1]

NilAddr == 0

\* the assignment *ptr = content; a nil ptr panics (nil pointer dereference)
Store(h, ptr, content) ==
    IF ptr = NilAddr THEN [heap |-> h, err |-> "panic"]
    ELSE [heap |-> [h EXCEPT ![ptr] = content], err |-> "nil"]

\* a failed Set: the error is returned before anything is written
Refuse(h, e) == [heap |-> h, err |-> e]

(***************************************************************************)
(* The adapters (flag.Value implementations).  An adapter is               *)
(* [type, ptr, example]: its Go type, the pointer to the variable it       *)
(* writes, and the example text.  Set returns the new heap and the error.  *)
(***************************************************************************)
NDTypes == {"ndsf", "ndbf", "ndif", "ndi64f", "nduif", "ndui64f", "ndff", "nddf"}

ZVTypes == {"zvsf", "zvbf", "zvif", "zvi64f", "zvuif", "zvui64f", "zvff", "zvdff"}

\* a Set of the string adapter that takes the empty text for "no value"
ndsf_SetNonEmpty(s, val, h) ==
    IF val = <<>> THEN Refuse(h, "nil") ELSE Store(h, s.ptr, Ptr(val))

ndsf_Set(s, val, h) == Store(h, s.ptr, Ptr(val))

ndbf_Set(b, val, h) ==
    LET r == ParseBoolOf[val]
    IN  IF r.err # "nil" THEN Refuse(h, r.err) ELSE Store(h, b.ptr, Ptr(r.val))

ndif_Set(i, val, h, size) ==
    LET r == AtoiOf[size][val]
    IN  IF r.err # "nil" THEN Refuse(h, r.err) ELSE Store(h, i.ptr, Ptr(r.val))

ndi64f_Set(i, val, h) ==
    LET r == ParseInt64Of[val]
    IN  IF r.err # "nil" THEN Refuse(h, r.err) ELSE Store(h, i.ptr, Ptr(r.val))

nduif_Set(ui, val, h, size) ==
    LET r == ParseUint64Of[val]
    IN  IF r.err # "nil" THEN Refuse(h, r.err)
        ELSE Store(h, ui.ptr, Ptr(NarrowUint(r.val, size)))

ndui64f_Set(ui, val, h) ==
    LET r == ParseUint64Of[val]
    IN  IF r.err # "nil" THEN Refuse(h, r.err) ELSE Store(h, ui.ptr, Ptr(r.val))

ndff_Set(f, val, h) ==
    LET r == ParseFloatOf[val]
    IN  IF r.err # "nil" THEN Refuse(h, r.err) ELSE Store(h, f.ptr, Ptr(r.val))

\* a Set of the duration adapter that clears the variable when the text
\* does not parse
nddf_SetOrClear(d, val, h) ==
    LET r == ParseDurationOf[val]
    IN  IF r.err # "nil"
        THEN [heap |-> IF d.ptr = NilAddr THEN h ELSE [h EXCEPT ![d.ptr] = Nil],
              err |-> r.err]
        ELSE Store(h, d.ptr, Ptr(r.val))

nddf_Set(d, val, h) ==
    LET r == ParseDurationOf[val]
    IN  IF r.err # "nil" THEN Refuse(h, r.err) ELSE Store(h, d.ptr, Ptr(r.val))

\* a Set of the direct string adapter that falls back to the example
zvsf_SetOrExample(s, val, h) ==
    Store(h, s.ptr, IF val = <<>> THEN s.example ELSE val)

zvsf_Set(s, val, h) == Store(h, s.ptr, val)

zvbf_Set(b, val, h) ==
    LET r == ParseBoolOf[val]
    IN  IF r.err # "nil" THEN Refuse(h, r.err) ELSE Store(h, b.ptr, r.val)

\* a Set of the direct int adapter that assigns what Atoi returned before
\* it looks at the error
zvif_SetEarly(i, val, h, size) ==
    LET r == AtoiOf[size][val]
    IN  [heap |-> IF i.ptr = NilAddr THEN h ELSE [h EXCEPT ![i.ptr] = r.val],
         err  |-> r.err]

zvif_Set(i, val, h, size) ==
    LET r == AtoiOf[size][val]
    IN  IF r.err # "nil" THEN Refuse(h, r.err) ELSE Store(h, i.ptr, r.val)

zvi64f_Set(i, val, h) ==
    LET r == ParseInt64Of[val]
    IN  IF r.err # "nil" THEN Refuse(h, r.err) ELSE Store(h, i.ptr, r.val)

zvuif_Set(ui, val, h, size) ==
    LET r == ParseUint64Of[val]
    IN  IF r.err # "nil" THEN Refuse(h, r.err)
        ELSE Store(h, ui.ptr, NarrowUint(r.val, size))

zvui64f_Set(ui, val, h) ==
    LET r == ParseUint64Of[val]
    IN  IF r.err # "nil" THEN Refuse(h, r.err) ELSE Store(h, ui.ptr, r.val)

zvff_Set(f, val, h) ==
    LET r == ParseFloatOf[val]
    IN  IF r.err # "nil" THEN Refuse(h, r.err) ELSE Store(h, f.ptr, r.val)

zvdff_Set(d, val, h) ==
    LET r == ParseDurationOf[val]
    IN  IF r.err # "nil" THEN Refuse(h, r.err) ELSE Store(h, d.ptr, r.val)

\* fl.Value.Set(val): the call through the flag.Value interface
ValueSet(v, val, h, size) ==
    CASE v.type = "ndsf"    -> ndsf_Set(v, val, h)
      [] v.type = "ndbf"    -> ndbf_Set(v, val, h)
      [] v.type = "ndif"    -> ndif_Set(v, val, h, size)
      [] v.type = "ndi64f"  -> ndi64f_Set(v, val, h)
      [] v.type = "nduif"   -> nduif_Set(v, val, h, size)
      [] v.type = "ndui64f" -> ndui64f_Set(v, val, h)
      [] v.type = "ndff"    -> ndff_Set(v, val, h)
      [] v.type = "nddf"    -> nddf_Set(v, val, h)
      [] v.type = "zvsf"    -> zvsf_Set(v, val, h)
      [] v.type = "zvbf"    -> zvbf_Set(v, val, h)
      [] v.type = "zvif"    -> zvif_Set(v, val, h, size)
      [] v.type = "zvi64f"  -> zvi64f_Set(v, val, h)
      [] v.type = "zvuif"   -> zvuif_Set(v, val, h, size)
      [] v.type = "zvui64f" -> zvui64f_Set(v, val, h)
      [] v.type = "zvff"    -> zvff_Set(v, val, h)
      [] v.type = "zvdff"   -> zvdff_Set(v, val, h)

\* a String method in the manner of the standard flag values: the text of
\* the variable (of a direct string flag) once it is there
CurrentString(v) ==
    IF v.type = "zvsf" /\ v.ptr \in DOMAIN heap THEN heap[v.ptr] ELSE v.example

\* fl.Value.String(): every adapter returns its example field
ValueString(v) == v.example

\* an adapter without the method IsBoolFlag
NotBoolFlag(v) == FALSE

\* whether the adapter has the method IsBoolFlag (which returns true)
IsBoolFlag(v) == v.type \in {"ndbf", "zvbf"}

(***************************************************************************)
(* The registration entry points build the adapter that is handed to       *)
(* flag.FlagSet.Var.  The example of every type but string is a typed      *)
(* value, formatted here.                                                  *)
(***************************************************************************)
NDStringVar(sv, example) == [type |-> "ndsf", ptr |-> sv, example |-> example]

NDBoolVar(bv, example) == [type |-> "ndbf", ptr |-> bv, example |-> FormatBool(example)]

NDIntVar(iv, example) == [type |-> "ndif", ptr |-> iv, example |-> FormatInt(example)]

NDInt64Var(iv, example) == [type |-> "ndi64f", ptr |-> iv, example |-> FormatInt(example)]

NDUintVar(uiv, example) == [type |-> "nduif", ptr |-> uiv, example |-> FormatUint(example)]

NDUint64Var(uiv, example) == [type |-> "ndui64f", ptr |-> uiv, example |-> FormatUint(example)]

NDFloat64Var(fv, example) == [type |-> "ndff", ptr |-> fv, example |-> FormatFloat(example)]

NDDurationVar(dv, example) == [type |-> "nddf", ptr |-> dv, example |-> DurationString(example)]

ZVStringVar(sv, example) == [type |-> "zvsf", ptr |-> sv, example |-> example]

ZVBoolVar(bv, example) == [type |-> "zvbf", ptr |-> bv, example |-> FormatBool(example)]

ZVIntVar(iv, example) == [type |-> "zvif", ptr |-> iv, example |-> FormatInt(example)]

ZVInt64Var(iv, example) == [type |-> "zvi64f", ptr |-> iv, example |-> FormatInt(example)]

ZVUintVar(uiv, example) == [type |-> "zvuif", ptr |-> uiv, example |-> FormatUint(example)]

ZVUint64Var(uiv, example) == [type |-> "zvui64f", ptr |-> uiv, example |-> FormatUint(example)]

ZVFloat64Var(fv, example) == [type |-> "zvff", ptr |-> fv, example |-> FormatFloat(example)]

ZVDurationVar(dv, example) == [type |-> "zvdff", ptr |-> dv, example |-> DurationString(example)]

Types == {"string", "bool", "int", "int64", "uint", "uint64", "float64", "duration"}

\* ND<T>Var(p, ..., example, ...)
NDVar(T, p, example) ==
    CASE T = "string"   -> NDStringVar(p, example)
      [] T = "bool"     -> NDBoolVar(p, example)
      [] T = "int"      -> NDIntVar(p, example)
      [] T = "int64"    -> NDInt64Var(p, example)
      [] T = "uint"     -> NDUintVar(p, example)
      [] T = "uint64"   -> NDUint64Var(p, example)
      [] T = "float64"  -> NDFloat64Var(p, example)
      [] T = "duration" -> NDDurationVar(p, example)

\* ZV<T>Var(p, ..., example, ...)
ZVVar(T, p, example) ==
    CASE T = "string"   -> ZVStringVar(p, example)
      [] T = "bool"     -> ZVBoolVar(p, example)
      [] T = "int"      -> ZVIntVar(p, example)
      [] T = "int64"    -> ZVInt64Var(p, example)
      [] T = "uint"     -> ZVUintVar(p, example)
      [] T = "uint64"   -> ZVUint64Var(p, example)
      [] T = "float64"  -> ZVFloat64Var(p, example)
      [] T = "duration" -> ZVDurationVar(p, example)

\* the zero value of a Go type: what "var x T" holds
ZeroValue(T) ==
    CASE T = "string"   -> <<>>
      [] T = "bool"     -> FALSE
      [] T = "float64"  -> Float(FALSE, <<>>, 0)
      [] OTHER          -> Zero64

\* a pointer variable that was allocated together with a zero value
AllocatedZero(T) == Ptr(ZeroValue(T))

\* the zero value of the pointer type *T: what "var sv *T" holds
ZeroPointer(T) == Nil

(***************************************************************************)
(* Inputs.                                                                 *)
(***************************************************************************)
\* the most flags registered in one flag set
MaxFlags == 1

\* flag names, in the order flag.VisitAll visits them (sorted)
FlagNames == << <<"b">>, <<"c","o","u","n","t">> >>

Names == {FlagNames[i] : i \in 1..Len(FlagNames)}

\* the names command line arguments use: "h" is never registered
ArgNames == Names \cup {<<"h">>}

\* the back quote character (ASCII 96), which the usage text of a flag may
\* put around the name of its value
BackQuote == "<backquote>"

\* the usage text registered with a name
UsageOf(nm) ==
    IF nm = <<"b">> THEN <<"o","n">> ELSE <<"t","h","e"," ",BackQuote,"n",BackQuote>>

\* the display names of the flag set (NewNDFlagSet's name)
SetNames == {<<>>, <<"p">>}

ErrorHandlings == {"ContinueOnError", "ExitOnError"}

\* n seconds as a Duration
Seconds(n) == MulSeq64(U64(n), <<1000, 1000, 1000>>)

\* the examples registered with a flag of type T (typed, but for string)
Examples(T) ==
    CASE T = "string"   -> {<<"e","x","a","m","p","l","e">>}
      [] T = "bool"     -> {TRUE}
      [] T = "int"      -> {Neg64(U64(5))}
      [] T = "int64"    -> {U64(42)}
      [] T = "uint"     -> {U64(7)}
      [] T = "uint64"   -> {Zero64}
      [] T = "float64"  -> {Float(FALSE, <<"1","5">>, 1)}
      [] T = "duration" -> {Seconds(5400)}

\* what a caller's variable may hold before it is handed to a ...Var entry
\* point, besides the zero value
PriorValue(T) ==
    CASE T = "string"   -> <<"o","l","d">>
      [] T = "bool"     -> TRUE
      [] T = "float64"  -> Float(TRUE, <<"2">>, 1)
      [] OTHER          -> U64(9)

(***************************************************************************)
(* The initial state: the flag set NewNDFlagSet returns.                   *)
(***************************************************************************)
Init ==
    /\ intSize \in {32, 64}
    /\ name \in SetNames
    /\ errorHandling \in ErrorHandlings
    /\ formal = <<>>
    /\ actual = {}
    /\ heap = <<>>
    /\ output = <<>>
    /\ err = "nil"
    /\ halted = "run"
    /\ reg = <<>>

\* f extended or overwritten at key k
Put(f, k, v) == (k :> v) @@ f

(***************************************************************************)
(* Usage output.                                                           *)
(***************************************************************************)
\* the index of the first c in s at or after i, or 0
RECURSIVE IndexFrom(_, _, _)
IndexFrom(s, c, i) ==
    IF i > Len(s) THEN 0 ELSE IF s[i] = c THEN i ELSE IndexFrom(s, c, i + 1)

\* flag.UnquoteUsage: the back quoted name in the usage text, or the name
\* the type of the value gives: "" for a boolean flag, "value" here otherwise
UnquoteUsage(fl) ==
    LET i == IndexFrom(fl.Usage, BackQuote, 1)
        j == IF i = 0 THEN 0 ELSE IndexFrom(fl.Usage, BackQuote, i + 1)
    IN  IF j # 0
        THEN [name  |-> SubSeq(fl.Usage, i + 1, j - 1),
              usage |-> SubSeq(fl.Usage, 1, i - 1) \o SubSeq(fl.Usage, i + 1, j - 1)
                        \o SubSeq(fl.Usage, j + 1, Len(fl.Usage))]
        ELSE [name  |-> IF IsBoolFlag(fl.Value) THEN <<>> ELSE <<"v","a","l","u","e">>,
              usage |-> fl.Usage]

\* strconv.Quote, as fmt's %q prints a string
RECURSIVE QuoteBody(_)
QuoteBody(s) ==
    IF s = <<>> THEN <<>>
    ELSE (IF s[1] = "\"" \/ s[1] = "\\" THEN <<"\\", s[1]>> ELSE <<s[1]>>)
         \o QuoteBody(Tail(s))

Quote(s) == <<"\"">> \o QuoteBody(s) \o <<"\"">>

\* the "(example ...)" suffix of a usage line: quoted for a *ndsf value
ExampleSuffix(fl) ==
    IF fl.Value.type = "ndsf"
    THEN <<" (example ">> \o Quote(fl.DefValue) \o <<")">>
    ELSE <<" (example ">> \o fl.DefValue \o <<")">>

\* the line printDefaults prints for one flag
UsageLine(fl) ==
    LET uq == UnquoteUsage(fl)
        s1 == <<" ", " ", "-">> \o fl.Name
        s2 == IF Len(uq.name) > 0 THEN s1 \o <<" ">> \o uq.name ELSE s1
        s3 == IF Len(s2) <= 4 THEN s2 \o <<"\t">> ELSE s2 \o <<"\n    \t">>
    IN  s3 \o uq.usage \o ExampleSuffix(fl) \o <<"\n">>

\* NDFlagSet.printDefaults: one line per flag, in VisitAll's order
printDefaults(fm) ==
    LET RECURSIVE Lines(_)
        Lines(i) ==
            IF i > Len(FlagNames) THEN <<>>
            ELSE (IF FlagNames[i] \in DOMAIN fm THEN <<UsageLine(fm[FlagNames[i]])>>
                  ELSE <<>>) \o Lines(i + 1)
    IN  Lines(1)

\* NDFlagSet.ndfUsage: the header, then the flags
ndfUsage(nm, fm) ==
    <<IF nm = <<>> THEN <<"Usage:\n">> ELSE <<"Usage of ">> \o nm \o <<":\n">> >>
    \o printDefaults(fm)


(***************************************************************************)
(* Registration.                                                           *)
(***************************************************************************)
\* flag.FlagSet.Var: the flag is recorded with DefValue = value.String();
\* a name registered twice panics
Var(value, nm, usage) ==
    IF nm \in DOMAIN formal
    THEN /\ halted' = "panic"
         /\ UNCHANGED <<formal, heap, reg>>
    ELSE /\ formal' = Put(formal, nm, [Name |-> nm, Usage |-> usage, Value |-> value,
                                       DefValue |-> ValueString(value)])
         /\ halted' = halted

\* NDString, NDBool, ..., NDDuration: a fresh nil pointer variable is
\* registered through ND<T>Var and its address returned
CallND(T, nm) ==
    /\ halted = "run"
    /\ Cardinality(DOMAIN formal) < MaxFlags
    /\ \E example \in Examples(T) :
          LET p == Len(heap) + 1
          IN  /\ Var(NDVar(T, p, example), nm, UsageOf(nm))
              /\ nm \notin DOMAIN formal =>
                    /\ heap' = Append(heap, ZeroPointer(T))
                    /\ reg' = Put(reg, nm, [entry |-> "ND", T |-> T, example |-> example,
                                            handle |-> p])
              /\ UNCHANGED <<intSize, name, errorHandling, actual, output, err>>

\* NDStringVar, ..., NDDurationVar called with the caller's pointer: nil
\* (caller = "nil"), or the address of a variable of the caller that holds
\* a nil pointer or a pointer to an earlier value
CallNDVar(T, nm, caller) ==
    /\ halted = "run"
    /\ Cardinality(DOMAIN formal) < MaxFlags
    /\ \E example \in Examples(T) :
          LET p == IF caller = "nil" THEN NilAddr ELSE Len(heap) + 1
          IN  /\ Var(NDVar(T, p, example), nm, UsageOf(nm))
              /\ nm \notin DOMAIN formal =>
                    /\ heap' = CASE caller = "nil"   -> heap
                                 [] caller = "unset" -> Append(heap, Nil)
                                 [] caller = "set"   -> Append(heap, Ptr(PriorValue(T)))
                    /\ reg' = Put(reg, nm, [entry |-> "NDVar", T |-> T, example |-> example,
                                            handle |-> p])
              /\ UNCHANGED <<intSize, name, errorHandling, actual, output, err>>

\* ZVString, ZVBool, ..., ZVDuration: a fresh zero variable is registered
\* through ZV<T>Var and its address returned
CallZV(T, nm) ==
    /\ halted = "run"
    /\ Cardinality(DOMAIN formal) < MaxFlags
    /\ \E example \in Examples(T) :
          LET p == Len(heap) + 1
          IN  /\ Var(ZVVar(T, p, example), nm, UsageOf(nm))
              /\ nm \notin DOMAIN formal =>
                    /\ heap' = Append(heap, ZeroValue(T))
                    /\ reg' = Put(reg, nm, [entry |-> "ZV", T |-> T, example |-> example,
                                            handle |-> p])
              /\ UNCHANGED <<intSize, name, errorHandling, actual, output, err>>

\* ZVStringVar, ..., ZVDurationVar called with the caller's pointer
CallZVVar(T, nm, caller) ==
    /\ halted = "run"
    /\ Cardinality(DOMAIN formal) < MaxFlags
    /\ \E example \in Examples(T) :
          LET p == IF caller = "nil" THEN NilAddr ELSE Len(heap) + 1
          IN  /\ Var(ZVVar(T, p, example), nm, UsageOf(nm))
              /\ nm \notin DOMAIN formal =>
                    /\ heap' = CASE caller = "nil"   -> heap
                                 [] caller = "unset" -> Append(heap, ZeroValue(T))
                                 [] caller = "set"   -> Append(heap, PriorValue(T))
                    /\ reg' = Put(reg, nm, [entry |-> "ZVVar", T |-> T, example |-> example,
                                            handle |-> p])
              /\ UNCHANGED <<intSize, name, errorHandling, actual, output, err>>

(***************************************************************************)
(* Setting and parsing (flag.FlagSet).                                     *)
(***************************************************************************)
\* The float64 model is exact for literals of at most 15 significant
\* digits: longer value texts are not given to a float64 flag.
InputOK(nm, val) ==
    (nm \in DOMAIN formal /\ formal[nm].Value.type \in {"ndff", "zvff"}) => Len(val) <= 15

\* the end of flag.FlagSet.Set: r is what flag.Value.Set returned
SetReturn(nm, r) ==
    IF r.err = "panic"
    THEN /\ halted' = "panic"
         /\ UNCHANGED <<heap, actual, err>>
    ELSE /\ heap' = r.heap
         /\ err' = r.err
         /\ actual' = IF r.err = "nil" THEN actual \cup {nm} ELSE actual
         /\ UNCHANGED halted

\* flag.FlagSet.Set(name, value)
Set(nm, val) ==
    /\ halted = "run"
    /\ InputOK(nm, val)
    /\ IF nm \notin DOMAIN formal
       THEN /\ err' = "no such flag"
            /\ UNCHANGED <<heap, actual, halted>>
       ELSE SetReturn(nm, ValueSet(formal[nm].Value, val, heap, intSize))
    /\ UNCHANGED <<intSize, name, errorHandling, formal, output, reg>>

\* what flag.FlagSet.Parse does with the error e of parseOne: it returns it
\* (ContinueOnError) or ends the process (ExitOnError)
Returned(e) ==
    /\ err' = e
    /\ halted' = CASE errorHandling = "ContinueOnError" -> "run"
                   [] errorHandling = "ExitOnError"     -> "exit"

\* flag.FlagSet.failf: the usage is written and the error goes to Parse
Failed(e) ==
    /\ Returned(e)
    /\ UNCHANGED <<heap, actual>>
    /\ output' = ndfUsage(name, formal)

\* the end of flag.FlagSet.parseOne: r is what flag.Value.Set returned
parseSet(nm, r) ==
    IF r.err = "panic"
    THEN /\ halted' = "panic"
         /\ UNCHANGED <<heap, actual, err, output>>
    ELSE IF r.err # "nil" THEN Failed(r.err)
    ELSE /\ heap' = r.heap
         /\ actual' = actual \cup {nm}
         /\ err' = "nil"
         /\ UNCHANGED <<output, halted>>

\* one round of the loop of flag.FlagSet.Parse: parseOne on the next
\* argument, "-nm=val" (hasValue) or "-nm", followed (hasNext) by the
\* argument next or by nothing
parseOne(nm, hasValue, val, hasNext, next) ==
    /\ halted = "run"
    /\ IF nm \notin DOMAIN formal
       THEN IF nm = <<"h">>
            THEN /\ Returned("help")
                 /\ UNCHANGED <<heap, actual>>
                 /\ output' = ndfUsage(name, formal)
            ELSE Failed("not defined")
       ELSE IF IsBoolFlag(formal[nm].Value)
       THEN parseSet(nm, ValueSet(formal[nm].Value,
                                  IF hasValue THEN val ELSE <<"t","r","u","e">>,
                                  heap, intSize))
       ELSE IF ~hasValue /\ ~hasNext THEN Failed("needs an argument")
       ELSE parseSet(nm, ValueSet(formal[nm].Value, IF hasValue THEN val ELSE next,
                                  heap, intSize))
    /\ UNCHANGED <<intSize, name, errorHandling, formal, reg>>

\* the argument forms: -nm=val, -nm, -nm val
ParseEq(nm, val) == InputOK(nm, val) /\ parseOne(nm, TRUE, val, FALSE, <<>>)

ParseBare(nm) == parseOne(nm, FALSE, <<>>, FALSE, <<>>)

ParseNext(nm, val) == InputOK(nm, val) /\ parseOne(nm, FALSE, <<>>, TRUE, val)

\* a call of the usage function (flag.FlagSet.Usage = ndf.ndfUsage)
Usage ==
    /\ halted = "run"
    /\ output' = ndfUsage(name, formal)
    /\ UNCHANGED <<intSize, name, errorHandling, formal, actual, heap, err, halted,
                   reg>>

Callers == {"nil", "unset", "set"}

Next ==
    \/ \E T \in Types, nm \in Names : CallND(T, nm)
    \/ \E T \in Types, nm \in Names, c \in Callers : CallNDVar(T, nm, c)
    \/ \E T \in Types, nm \in Names : CallZV(T, nm)
    \/ \E T \in Types, nm \in Names, c \in Callers : CallZVVar(T, nm, c)
    \/ \E nm \in ArgNames, val \in FewTokens : Set(nm, val)
    \/ \E nm \in ArgNames, val \in Tokens : ParseEq(nm, val)
    \/ \E nm \in ArgNames : ParseBare(nm)
    \/ \E nm \in ArgNames, val \in FewTokens : ParseNext(nm, val)
    \/ Usage

Spec == Init /\ [][Next]_vars


(***************************************************************************)
(* Properties.                                                             *)
(*                                                                         *)
(* A flag is spoken of through the history reg: how it was registered,     *)
(* with which type and example, and the address handed back (or in).       *)
(***************************************************************************)
\* the flags with a pointer-to-pointer variable behind them
Optional == {nm \in DOMAIN reg : reg[nm].entry \in {"ND", "NDVar"} /\ reg[nm].handle # NilAddr}

\* the flags with a plain variable behind them
Direct == {nm \in DOMAIN reg : reg[nm].entry \in {"ZV", "ZVVar"} /\ reg[nm].handle # NilAddr}

\* the variable behind a flag, now and after the step
Cell(nm) == heap[reg[nm].handle]

CellAfter(nm) == heap'[reg[nm].handle]

\* the canonical parse of a value text for a Go type: the parser of the
\* standard library for that type and its width
Canonical(T, v, size) ==
    CASE T = "string"   -> Ok(v)
      [] T = "bool"     -> ParseBool(v)
      [] T = "int"      -> ParseInt(v, size)
      [] T = "int64"    -> ParseInt(v, 64)
      [] T = "uint"     -> ParseUint(v, size)
      [] T = "uint64"   -> ParseUint(v, 64)
      [] T = "float64"  -> ParseFloat(v)
      [] T = "duration" -> ParseDuration(v)

CanonicalOf ==
    [T \in Types |-> [size \in {32, 64} |-> [v \in Tokens |-> Canonical(T, v, size)]]]

\* C1: a flag registered with an allocating entry point (NDString, NDBool,
\* ...) has a handle that is not nil and is the address of a variable, and
\* as long as no argument has set the flag that variable holds a nil pointer
C1_UnsuppliedIsAbsent ==
    \A nm \in DOMAIN reg :
        reg[nm].entry = "ND" =>
            /\ reg[nm].handle # NilAddr
            /\ reg[nm].handle \in DOMAIN heap
            /\ nm \notin actual => heap[reg[nm].handle] = Nil

\* C1 happens: an allocating entry point registered a flag, arguments that
\* do not name it were parsed (and refused), and its variable holds nil
C1_Witness ==
    \E nm \in DOMAIN reg :
        /\ reg[nm].entry = "ND"
        /\ err \in {"not defined", "help"}
        /\ nm \notin actual
        /\ heap[reg[nm].handle] = Nil

\* C2: when -nm=v is parsed for an optional flag of type T and v is in the
\* grammar of T, the variable then holds a pointer (not nil) to the
\* canonical parse of v, the zero value of T included
C2_PresentCanonical ==
    [][\A nm \in Optional : \A v \in Tokens :
          (/\ CanonicalOf[reg[nm].T][intSize][v].err = "nil"
           /\ ParseEq(nm, v))
          => /\ CellAfter(nm) # Nil
             /\ Len(CellAfter(nm)) = 1
             /\ Deref(CellAfter(nm)) = CanonicalOf[reg[nm].T][intSize][v].val
             /\ err' = "nil"]_vars

\* C2 happens: an optional flag was set from a text that parses to the zero
\* value of its type, and its variable holds a pointer to that zero value
C2_Witness ==
    \E nm \in Optional :
        /\ nm \in actual
        /\ err = "nil"
        /\ Cell(nm) # Nil
        /\ Deref(Cell(nm)) = ZeroValue(reg[nm].T)

\* the parse an adapter of type T applies to a value text: the canonical
\* one, but for uint, which is parsed as a 64 bit number whatever its width
AdapterParse(T, v, size) == IF T = "uint" THEN ParseUint(v, 64) ELSE Canonical(T, v, size)

AdapterParseOf ==
    [T \in Types |-> [size \in {32, 64} |-> [v \in Tokens |-> AdapterParse(T, v, size)]]]

\* the errors of the parsers
ParseErrors == {"syntax", "range", "invalid"}

\* Set of the adapter of flag nm refuses v: it returns the error e and the
\* heap it was given
Refuses(nm, v, e) ==
    ValueSet(formal[nm].Value, v, heap, intSize) = [heap |-> heap, err |-> e]

\* C3: in every state a flag (optional or direct) can be in - never set, set
\* before, holding what the caller left - Set of its adapter on a value
\* text that is malformed for the type returns the error of the parser
\* and writes nothing; and a step of the flag set that reports such an
\* error, by Set or by Parse, leaves every variable as it was before
C3_FailureWritesNothing ==
    /\ [](\A nm \in Optional \cup Direct : \A v \in Tokens :
             AdapterParseOf[reg[nm].T][intSize][v].err # "nil"
             => Refuses(nm, v, AdapterParseOf[reg[nm].T][intSize][v].err))
    /\ [][(reg' = reg /\ err' \in ParseErrors) => (heap' = heap /\ actual' = actual)]_vars

\* C3 happens: a flag that had been set, direct or optional, was then
\* handed a malformed text, and its variable still holds a value
C3_Witness ==
    \E nm \in Optional \cup Direct :
        /\ reg[nm].T # "string"
        /\ nm \in actual
        /\ err \in {"syntax", "range", "invalid"}
        /\ Cell(nm) # ZeroPointer(reg[nm].T)


\* the flags of type bool, of both styles
BoolFlags == {nm \in Optional \cup Direct : reg[nm].T = "bool"}

\* a value of type T as the variable of flag nm holds it: behind a pointer
\* for an optional flag, as it is for a direct one
Held(nm, x) == IF nm \in Optional THEN Ptr(x) ELSE x

\* C4: for a bool flag of either style the argument -nm does what the
\* argument -nm=true does (the same steps, so the same variable, error and
\* output), which leaves a present true (optional) or true (direct); and
\* -nm=false leaves a present false (optional) or false (direct)
C4_BareIsTrue ==
    [][\A nm \in BoolFlags :
          /\ ParseBare(nm) <=> ParseEq(nm, <<"t","r","u","e">>)
          /\ ParseBare(nm) => CellAfter(nm) = Held(nm, TRUE) /\ nm \in actual'
          /\ ParseEq(nm, <<"f","a","l","s","e">>)
             => CellAfter(nm) = Held(nm, FALSE) /\ nm \in actual']_vars

\* C4 happens: an optional bool flag registered with a nil variable was set
\* and holds a pointer to true
C4_Witness ==
    \E nm \in BoolFlags :
        /\ reg[nm].entry = "ND"
        /\ nm \in actual
        /\ Cell(nm) = Ptr(TRUE)

\* the direct string flags registered by ZVString with the example "example"
ZVStrings ==
    {nm \in Direct : /\ reg[nm].entry = "ZV"
                     /\ reg[nm].T = "string"
                     /\ reg[nm].example = <<"e","x","a","m","p","l","e">>}

C6_StaysPresent ==
    [][\A nm \in Optional :
          nm \in DOMAIN reg' =>
              /\ Cell(nm) # Nil => CellAfter(nm) # Nil
              /\ CellAfter(nm) # Cell(nm)
                 => /\ CellAfter(nm) # Nil
                    /\ err' = "nil"
                    /\ nm \in actual']_vars

\* C6 happens: an optional flag was set, a later text for it was refused,
\* and its variable still holds a pointer
C6_Witness ==
    \E nm \in Optional :
        /\ reg[nm].entry = "ND"
        /\ nm \in actual
        /\ err \in ParseErrors
        /\ Cell(nm) # Nil


\* no Set and no Parse has been called yet on the flag set
BeforeParse == actual = {} /\ err = "nil"

\* C7: before any parse the variable of an optional flag holds a nil
\* pointer, whichever entry point registered the flag and whatever the
\* variable of the caller held
C7_AbsentBeforeParse ==
    BeforeParse => \A nm \in Optional : Cell(nm) = Nil

\* the lines of the usage output that start with "  -nm" and something else
\* than a letter of a name
LinesOf(nm) ==
    {i \in 2..Len(output) :
        /\ Len(output[i]) > Len(nm) + 3
        /\ SubSeq(output[i], 1, Len(nm) + 3) = <<" ", " ", "-">> \o nm
        /\ Len(output[i][Len(nm) + 4]) # 1 \/ output[i][Len(nm) + 4] \in {" ", "\t"}}

EndsWith(l, suffix) ==
    Len(l) >= Len(suffix) /\ SubSeq(l, Len(l) - Len(suffix) + 1, Len(l)) = suffix

\* C8: the line of a flag in the usage output ends with its default text in
\* double quotes if the flag is of type string (registered as NDString or
\* as ZVString), and with the bare default text if it is of another type
C8_QuotedIffString ==
    \A nm \in DOMAIN formal : \A i \in LinesOf(nm) :
        EndsWith(output[i],
                 <<" (example ">>
                 \o (IF reg[nm].T = "string" THEN Quote(formal[nm].DefValue)
                     ELSE formal[nm].DefValue)
                 \o <<")", "\n">>)

\* the value the text s denotes for the type T
Denotes(T, s) == IF T = "uint" THEN ParseUint(s, 64) ELSE Canonical(T, s, 64)

\* C9: in every state, whatever was parsed before, the default text of a
\* registered flag is what its adapter renders, it is the example given at
\* registration (the text itself for a string flag, a text that denotes
\* the typed example otherwise), and the lines of the flag in the usage
\* output show it
C9_DefaultIsExample ==
    \A nm \in DOMAIN formal :
        /\ formal[nm].DefValue = ValueString(formal[nm].Value)
        /\ Denotes(reg[nm].T, formal[nm].DefValue) = Ok(reg[nm].example)
        /\ \A i \in LinesOf(nm) :
              \/ EndsWith(output[i], <<" (example ">> \o formal[nm].DefValue \o <<")", "\n">>)
              \/ EndsWith(output[i], <<" (example ">> \o Quote(formal[nm].DefValue)
                                     \o <<")", "\n">>)

\* C9 happens: a flag was set to a value that is not its example, the usage
\* was written after that, and the line of the flag is in it
C9_Witness ==
    \E nm \in Optional \cup Direct :
        /\ nm \in actual
        /\ Cell(nm) # Held(nm, reg[nm].example)
        /\ LinesOf(nm) # {}


\* x * k + a for a natural number x of any size, given as its base 2^16
\* limbs (least significant first, no limit on their number)
RECURSIVE NatMulAdd(_, _, _)
NatMulAdd(x, k, a) ==
    IF x = <<>> THEN (IF a = 0 THEN <<>> ELSE <<a>>)
    ELSE <<(x[1] * k + a) % LimbBase>> \o NatMulAdd(Tail(x), k, (x[1] * k + a) \div LimbBase)

\* the natural number a text of decimal digits denotes
RECURSIVE DecimalValue(_, _)
DecimalValue(s, x) ==
    IF s = <<>> THEN x ELSE DecimalValue(Tail(s), NatMulAdd(x, 10, DigitVal(s[1])))

\* the value texts that are decimal numerals, and the numbers they denote
Numerals == {v \in Tokens : v # <<>> /\ \A i \in 1..Len(v) : IsDigit(v[i])}

NumberOf == [v \in Numerals |-> DecimalValue(v, <<>>)]

\* a natural number of at most 64 bits as a word
Word(x) == [i \in 1..4 |-> IF i <= Len(x) THEN x[i] ELSE 0]

\* the optional uint64 flags
Uint64Flags == {nm \in Optional : reg[nm].T = "uint64"}

\* C10: for an optional uint64 flag, -nm=18446744073709551615 leaves a
\* pointer to 2^64-1, all 64 bits set; -nm=18446744073709551616 reports a
\* range error and leaves the variable as it was (nil when it was nil); and
\* -nm=v for any decimal numeral v leaves a pointer to the number v
\* denotes when that is at most 2^64-1 and reports a range error, writing
\* nothing, when it is more
C10_Uint64Range ==
    [][\A nm \in Uint64Flags :
          /\ ParseEq(nm, MaxUint64Text)
             => /\ CellAfter(nm) = Ptr(<<65535, 65535, 65535, 65535>>)
                /\ err' = "nil"
          /\ ParseEq(nm, SubSeq(MaxUint64Text, 1, 19) \o <<"6">>)
             => /\ err' = "range"
                /\ heap' = heap
                /\ Cell(nm) = Nil => CellAfter(nm) = Nil
          /\ \A v \in Numerals :
                ParseEq(nm, v)
                => IF Len(NumberOf[v]) <= 4
                   THEN CellAfter(nm) = Ptr(Word(NumberOf[v])) /\ err' = "nil"
                   ELSE err' = "range" /\ heap' = heap]_vars

\* C10 happens: an optional uint64 flag holds a pointer to 2^64-1
C10_Witness ==
    \E nm \in Uint64Flags : Cell(nm) = Ptr(Word(NumberOf[MaxUint64Text]))

\* the flags of type uint, of both styles
UintFlags == {nm \in Optional \cup Direct : reg[nm].T = "uint"}

\* the decimal numerals that fit 64 bits but not 32
WideNumerals == {v \in Numerals : Len(NumberOf[v]) \in {3, 4}}

\* a natural number modulo 2^32: its two low limbs
Mod32(x) == Word(SubSeq(x, 1, 2))

\* C11: where uint is 32 bits wide, -nm=v for a uint flag of either style
\* and a decimal numeral v with 2^32 <= v < 2^64 reports no error and
\* leaves v modulo 2^32 in the variable, which is not the number v
\* denotes, although strconv.ParseUint(v, 10, 32) reports a range error
\* for it; where uint is 64 bits wide the number itself is left
C11_UintNarrowing ==
    [][\A nm \in UintFlags : \A v \in WideNumerals :
          ParseEq(nm, v)
          => /\ err' = "nil"
             /\ nm \in actual'
             /\ intSize = 32
                => /\ CellAfter(nm) = Held(nm, Mod32(NumberOf[v]))
                   /\ CellAfter(nm) # Held(nm, Word(NumberOf[v]))
                   /\ CanonicalOf["uint"][32][v].err = "range"
             /\ intSize = 64 => CellAfter(nm) = Held(nm, Word(NumberOf[v]))]_vars

\* C11 happens: where uint is 32 bits wide, a uint flag was
\* set from 18446744073709551615 without error and holds 2^32-1
C11_Witness ==
    /\ intSize = 32
    /\ err = "nil"
    /\ \E nm \in UintFlags :
          /\ nm \in actual
          /\ Cell(nm) = Held(nm, <<65535, 65535, 0, 0>>)

====
